---------------------------- MODULE Spec2Model ----------------------------
(***************************************************************************)
(* Model of the medical-examination roster: the working collection of      *)
(* records (database.py), the validators and the derived-field cache       *)
(* (utils.py), and the three-way quicksort with its key functions          *)
(* (sort.py).                                                              *)
(*                                                                         *)
(* Python strings are sequences of one-character strings, so that split,   *)
(* strip, lower, isdigit and int are computed and not assumed.  The        *)
(* Cyrillic literals of the source are written in Latin transliteration    *)
(* (mladshaya, srednyaya, starshaya, zdorov, ...); an upper-case Latin     *)
(* letter stands for the upper-case Cyrillic one.  A dict is a function    *)
(* from its keys to its values.                                            *)
(***************************************************************************)
EXTENDS Naturals, Integers, Sequences, FiniteSets, TLC

VARIABLES
    file,       \* data.txt: the sequence of its lines (without line ends)
    records,    \* the working collection held by the caller
    report,     \* the counts in the message of the last load_database,
                \* <<valid_records, skipped_records>>, or of the last
                \* save_database, <<len(records)>>; <<>> while none has run
    saved,      \* <<the list handed to the last save_database>>, <<>> while
                \* none has run
    in_date,    \* validators: the date string handed to them
    in_group,   \* validators: the group handed to validate_group_by_birth_year
    verdict,    \* validators: <<what the two validators returned>>, <<>> while
                \* they have not run
    arr,        \* sort engine: the list handed to quicksort
    key_func,   \* sort engine: the key function used
    reverse,    \* sort engine: the direction flag
    result,     \* sort engine: what the sort returned
    again,      \* sort engine: the sort of the result, same key and direction
    frames      \* sort engine, a call of quicksort step by step: from left to
                \* right the calls still to be made and the groups in place

vars == <<file, records, report, saved, in_date, in_group, verdict,
          arr, key_func, reverse, result, again, frames>>
dbvars == <<file, records, report, saved>>
sortvars == <<arr, key_func, reverse, result, again, frames>>
checkvars == <<in_date, in_group, verdict>>

---------------------------------------------------------------------------
(* Bounds of the model.                                                    *)

MaxRecords == 1     \* add_record is not offered beyond this many records
MaxChunks == 3      \* a file of the load specification has at most this many chunks
MaxLen == 4         \* longest list handed to quicksort

---------------------------------------------------------------------------
(* String literals of the source.                                          *)

familiya == <<"f", "a", "m", "i", "l", "i", "y", "a">>
imya == <<"i", "m", "y", "a">>
data_rozhdeniya == <<"d", "a", "t", "a", "_", "r", "o", "z", "h", "d", "e", "n", "i", "y", "a">>
gruppa == <<"g", "r", "u", "p", "p", "a">>
nevropatolog == <<"n", "e", "v", "r", "o", "p", "a", "t", "o", "l", "o", "g">>
otolaringolog == <<"o", "t", "o", "l", "a", "r", "i", "n", "g", "o", "l", "o", "g">>
ortoped == <<"o", "r", "t", "o", "p", "e", "d">>
okulist == <<"o", "k", "u", "l", "i", "s", "t">>
mladshaya == <<"m", "l", "a", "d", "s", "h", "a", "y", "a">>
srednyaya == <<"s", "r", "e", "d", "n", "y", "a", "y", "a">>
starshaya == <<"s", "t", "a", "r", "s", "h", "a", "y", "a">>
zdorov == <<"z", "d", "o", "r", "o", "v">>
nuzhdaetsya_v_lechenii == <<"n", "u", "z", "h", "d", "a", "e", "t", "s", "y", "a", " ", "v", " ", "l", "e", "c", "h", "e", "n", "i", "i">>
k_healthy_count == <<"_", "h", "e", "a", "l", "t", "h", "y", "_", "c", "o", "u", "n", "t">>
k_needs_treatment == <<"_", "n", "e", "e", "d", "s", "_", "t", "r", "e", "a", "t", "m", "e", "n", "t">>
k_needs_specialists == <<"_", "n", "e", "e", "d", "s", "_", "s", "p", "e", "c", "i", "a", "l", "i", "s", "t", "s">>

required == <<familiya, imya, data_rozhdeniya, gruppa>>
specialists == <<nevropatolog, otolaringolog, ortoped, okulist>>

(* group_years of validate_group_by_birth_year, and the same years as      *)
(* add_record and edit_record spell them out.                              *)
group_years == [g \in {mladshaya, srednyaya, starshaya} |->
                  IF g = mladshaya THEN {2022, 2023}
                  ELSE IF g = srednyaya THEN {2020, 2021}
                  ELSE {2018, 2019}]

---------------------------------------------------------------------------
(* Python's string methods, on sequences of characters.                    *)

UpperLetters == <<"A", "B", "C", "D", "E", "F", "G", "H", "I", "J", "K", "L", "M",
                  "N", "O", "P", "Q", "R", "S", "T", "U", "V", "W", "X", "Y", "Z">>
LowerLetters == <<"a", "b", "c", "d", "e", "f", "g", "h", "i", "j", "k", "l", "m",
                  "n", "o", "p", "q", "r", "s", "t", "u", "v", "w", "x", "y", "z">>
DigitChars == <<"0", "1", "2", "3", "4", "5", "6", "7", "8", "9">>

Range(s) == {s[i] : i \in 1..Len(s)}

UpperSet == Range(UpperLetters)
DigitSet == Range(DigitChars)
LowerOf == [c \in UpperSet |->
              LowerLetters[CHOOSE i \in 1..Len(UpperLetters) : UpperLetters[i] = c]]
DigitValOf == [c \in DigitSet |-> (CHOOSE i \in 1..Len(DigitChars) : DigitChars[i] = c) - 1]

\* str.lower(), one character
LowerChar(c) == IF c \in UpperSet THEN LowerOf[c] ELSE c

\* str.lower()
Lower(s) == [i \in 1..Len(s) |-> LowerChar(s[i])]

\* str.strip(): leading and trailing blanks removed
Strip(s) ==
    IF \A i \in 1..Len(s) : s[i] = " " THEN <<>>
    ELSE SubSeq(s, CHOOSE i \in 1..Len(s) : s[i] # " " /\ \A j \in 1..(i - 1) : s[j] = " ",
                   CHOOSE i \in 1..Len(s) : s[i] # " " /\ \A j \in (i + 1)..Len(s) : s[j] = " ")

\* the character ^ stands for a superscript digit: str.isdigit() accepts it
\* and int() does not convert it
SuperscriptDigits == {"^"}

\* str.isdigit(): non-empty and every character a digit
IsDigit(s) == Len(s) > 0 /\ \A i \in 1..Len(s) : s[i] \in DigitSet \cup SuperscriptDigits

\* a string int() converts as it stands: non-empty and every character a
\* decimal digit
IsDecimal(s) == Len(s) > 0 /\ \A i \in 1..Len(s) : s[i] \in DigitSet

DigitVal(c) == DigitValOf[c]

\* int(s) for a string of digits
RECURSIVE ToInt(_)
ToInt(s) ==
    IF s = <<>> THEN 0
    ELSE 10 * ToInt(SubSeq(s, 1, Len(s) - 1)) + DigitVal(s[Len(s)])

\* int(s) raises ValueError unless s, blanks stripped, is a string of decimal
\* digits (signs and underscores are outside the alphabet of the model)
IntRaises(s) == ~IsDecimal(Strip(s))

int_of(s) == ToInt(Strip(s))

\* sep in s
Contains(s, sep) == \E i \in 1..Len(s) : s[i] = sep

\* str.split(sep): the pieces between the occurrences of sep
RECURSIVE Split(_, _)
Split(s, sep) ==
    IF ~Contains(s, sep) THEN <<s>>
    ELSE LET i == CHOOSE k \in 1..Len(s) : s[k] = sep /\ \A j \in 1..(k - 1) : s[j] # sep
         IN <<SubSeq(s, 1, i - 1)>> \o Split(SubSeq(s, i + 1, Len(s)), sep)

\* str.split(sep, 1) of a string that contains sep: cut at the first sep
Split1(s, sep) ==
    LET i == CHOOSE k \in 1..Len(s) : s[k] = sep /\ \A j \in 1..(k - 1) : s[j] # sep
    IN <<SubSeq(s, 1, i - 1), SubSeq(s, i + 1, Len(s))>>

---------------------------------------------------------------------------
(* Dicts.                                                                  *)

EmptyDict == [k \in {} |-> <<>>]

\* d[k] = v
Put(d, k, v) == [x \in (DOMAIN d) \cup {k} |-> IF x = k THEN v ELSE d[x]]

\* del d[k]
Del(d, k) == [x \in (DOMAIN d) \ {k} |-> d[x]]

\* d.get(k, default)
Get(d, k, default) == IF k \in DOMAIN d THEN d[k] ELSE default

---------------------------------------------------------------------------
(* utils.py                                                                *)

\* validate_date, the body of its try statement: what it returns, or that
\* int() raised
validate_date_try(date_str) ==
    LET parts == Split(date_str, "-") IN
    IF Len(parts) # 3 THEN [raised |-> FALSE, ok |-> FALSE, msg |-> "format"]
    ELSE IF ~(IsDigit(parts[1]) /\ IsDigit(parts[2]) /\ IsDigit(parts[3]))
    THEN [raised |-> FALSE, ok |-> FALSE, msg |-> "not numbers"]
    ELSE IF IntRaises(parts[1]) \/ IntRaises(parts[2]) \/ IntRaises(parts[3])
    THEN [raised |-> TRUE, ok |-> FALSE, msg |-> ""]
    ELSE LET year_int == ToInt(parts[1])
             month_int == ToInt(parts[2])
             day_int == ToInt(parts[3])
         IN IF ~(2010 <= year_int /\ year_int <= 2020)
            THEN [raised |-> FALSE, ok |-> FALSE, msg |-> "year range"]
            ELSE IF ~(1 <= month_int /\ month_int <= 12)
            THEN [raised |-> FALSE, ok |-> FALSE, msg |-> "month range"]
            ELSE IF ~(1 <= day_int /\ day_int <= 31)
            THEN [raised |-> FALSE, ok |-> FALSE, msg |-> "day range"]
            ELSE IF month_int = 2 /\ day_int > 29
            THEN [raised |-> FALSE, ok |-> FALSE, msg |-> "february"]
            ELSE IF month_int \in {4, 6, 9, 11} /\ day_int > 30
            THEN [raised |-> FALSE, ok |-> FALSE, msg |-> "30 days"]
            ELSE [raised |-> FALSE, ok |-> TRUE, msg |-> ""]

\* the body of validate_date with no except clause around it
validate_date_unguarded(date_str) == validate_date_try(date_str)

\* a validator that knows the leap years: 29 February only in a year that 4
\* divides
validate_date_calendar(date_str) ==
    LET t == validate_date_try(date_str)
        parts == Split(date_str, "-")
    IN IF t.raised THEN [raised |-> FALSE, ok |-> FALSE, msg |-> "error: exception"]
       ELSE IF t.ok /\ ToInt(parts[2]) = 2 /\ ToInt(parts[3]) = 29
                    /\ ToInt(parts[1]) % 4 # 0
       THEN [raised |-> FALSE, ok |-> FALSE, msg |-> "february"]
       ELSE t

\* validate_date: the except clause turns an exception into a failure
validate_date(date_str) ==
    LET t == validate_date_try(date_str) IN
    IF t.raised THEN [raised |-> FALSE, ok |-> FALSE, msg |-> "error: exception"]
    ELSE t

validate_group(group) == Lower(group) \in {mladshaya, srednyaya, starshaya}

\* a count that tells the letter cases apart
count_healthy_exact(record) ==
    Cardinality({i \in 1..Len(specialists) : Get(record, specialists[i], <<>>) = zdorov})

count_healthy_specialists(record) ==
    Cardinality({i \in 1..Len(specialists) :
                   Lower(Get(record, specialists[i], <<>>)) = zdorov})

needs_treatment(record) ==
    \E i \in 1..Len(specialists) :
        Lower(Get(record, specialists[i], <<>>)) = nuzhdaetsya_v_lechenii

\* the needs_specialists list built by process_records_batch: the flagged
\* specialists in the order of the specialists list
RECURSIVE needs_specialists_from(_, _)
needs_specialists_from(record, i) ==
    IF i > Len(specialists) THEN <<>>
    ELSE (IF Lower(Get(record, specialists[i], <<>>)) = nuzhdaetsya_v_lechenii
          THEN <<specialists[i]>> ELSE <<>>)
         \o needs_specialists_from(record, i + 1)

\* one iteration of the loop of process_records_batch
process_record(record) ==
    Put(Put(Put(record,
                k_healthy_count, count_healthy_specialists(record)),
            k_needs_treatment, needs_treatment(record)),
        k_needs_specialists, needs_specialists_from(record, 1))

process_records_batch(recs) == [i \in 1..Len(recs) |-> process_record(recs[i])]

---------------------------------------------------------------------------
(* database.py                                                             *)

\* validate_group_by_birth_year, the body of its try statement
validate_group_by_birth_year_try(birth_date, group) ==
    LET year_str == Split(birth_date, "-")[1] IN
    IF ~IsDigit(year_str)
    THEN [raised |-> FALSE, ok |-> FALSE, msg |-> "year not a number"]
    ELSE IF IntRaises(year_str) THEN [raised |-> TRUE, ok |-> FALSE, msg |-> ""]
    ELSE LET year == ToInt(year_str) IN
         IF group \notin DOMAIN group_years
         THEN [raised |-> FALSE, ok |-> FALSE, msg |-> "unknown group"]
         ELSE IF year \notin group_years[group]
         THEN [raised |-> FALSE, ok |-> FALSE, msg |-> "year not of the group"]
         ELSE [raised |-> FALSE, ok |-> TRUE, msg |-> ""]

\* a check of group and year that wants the whole date valid as well
validate_group_by_birth_year_strict(birth_date, group) ==
    LET t == validate_group_by_birth_year_try(birth_date, group) IN
    IF t.raised THEN [raised |-> FALSE, ok |-> FALSE, msg |-> "error: exception"]
    ELSE IF t.ok /\ ~validate_date(birth_date).ok
    THEN [raised |-> FALSE, ok |-> FALSE, msg |-> "date"]
    ELSE t

\* validate_group_by_birth_year: the except clause turns an exception into a
\* failure
validate_group_by_birth_year(birth_date, group) ==
    LET t == validate_group_by_birth_year_try(birth_date, group) IN
    IF t.raised THEN [raised |-> FALSE, ok |-> FALSE, msg |-> "error: exception"]
    ELSE t

\* load_database, a line with a colon: the key lower-cased, the value stripped
parse_line(current_record, line) ==
    IF Contains(line, ":")
    THEN LET kv == Split1(line, ":")
         IN Put(current_record, Lower(Strip(kv[1])), Strip(kv[2]))
    ELSE current_record

\* load_database, the test a finished block must pass to be appended
block_is_valid(current_record) ==
    /\ \A i \in 1..Len(required) : required[i] \in DOMAIN current_record
    /\ validate_group_by_birth_year(current_record[data_rozhdeniya],
                                    current_record[gruppa]).ok

\* load_database, the end of a block: append it or count it as skipped
close_block(st) ==
    IF DOMAIN st.current_record = {} THEN st
    ELSE IF block_is_valid(st.current_record)
    THEN [st EXCEPT !.records = Append(@, st.current_record),
                    !.valid_records = @ + 1,
                    !.current_record = EmptyDict]
    ELSE [st EXCEPT !.skipped_records = @ + 1,
                    !.current_record = EmptyDict]

\* load_database, the loop over the lines from line i on
RECURSIVE load_lines(_, _, _)
load_lines(lines, i, st) ==
    IF i > Len(lines) THEN st
    ELSE LET line == Strip(lines[i]) IN
         IF line = <<>>
         THEN load_lines(lines, i + 1, close_block(st))
         ELSE load_lines(lines, i + 1,
                         [st EXCEPT !.current_record = parse_line(@, line)])

\* load_database without its last step, which closes a block that no blank
\* line follows
load_database_no_last_block(f) ==
    IF ~f.exists
    THEN [records |-> <<>>, msg |-> "file not found", valid_records |-> 0,
          skipped_records |-> 0]
    ELSE LET st == load_lines(f.lines, 1,
                       [current_record |-> EmptyDict, records |-> <<>>,
                        valid_records |-> 0, skipped_records |-> 0])
         IN [records |-> IF st.records # <<>>
                         THEN process_records_batch(st.records) ELSE st.records,
             msg |-> IF st.skipped_records > 0 THEN "loaded, some skipped"
                     ELSE "loaded",
             valid_records |-> st.valid_records,
             skipped_records |-> st.skipped_records]

load_database(f) ==
    IF ~f.exists
    THEN [records |-> <<>>, msg |-> "file not found", valid_records |-> 0,
          skipped_records |-> 0]
    ELSE LET st == close_block(load_lines(f.lines, 1,
                       [current_record |-> EmptyDict, records |-> <<>>,
                        valid_records |-> 0, skipped_records |-> 0]))
         IN [records |-> IF st.records # <<>>
                         THEN process_records_batch(st.records) ELSE st.records,
             msg |-> IF st.skipped_records > 0 THEN "loaded, some skipped"
                     ELSE "loaded",
             valid_records |-> st.valid_records,
             skipped_records |-> st.skipped_records]

\* str.startswith(prefix), prefix one character
StartsWith(s, prefix) == Len(s) > 0 /\ s[1] = prefix

\* save_database, the copy of a record without its internal fields
clean_record(record) ==
    [key \in {k \in DOMAIN record : ~StartsWith(k, "_")} |-> record[key]]

\* the line save_database writes for a field
FieldLine(key, value) == key \o <<":", " ">> \o value

\* save_database, the lines of the specialists of a record from specialist i on
RECURSIVE specialist_lines(_, _)
specialist_lines(record, i) ==
    IF i > Len(specialists) THEN <<>>
    ELSE (IF specialists[i] \in DOMAIN record
          THEN <<FieldLine(specialists[i], record[specialists[i]])>> ELSE <<>>)
         \o specialist_lines(record, i + 1)

\* the lines of a record with no empty line after them
record_lines_unseparated(record) ==
    <<FieldLine(familiya, record[familiya]), FieldLine(imya, record[imya]),
      FieldLine(data_rozhdeniya, record[data_rozhdeniya]),
      FieldLine(gruppa, record[gruppa])>>
    \o specialist_lines(record, 1)

\* save_database, what the buffer gets for one record
record_lines(record) ==
    <<FieldLine(familiya, record[familiya]), FieldLine(imya, record[imya]),
      FieldLine(data_rozhdeniya, record[data_rozhdeniya]),
      FieldLine(gruppa, record[gruppa])>>
    \o specialist_lines(record, 1) \o <<<<>>>>

RECURSIVE buffer_of(_)
buffer_of(clean_records) ==
    IF clean_records = <<>> THEN <<>>
    ELSE record_lines(Head(clean_records)) \o buffer_of(Tail(clean_records))

\* a save that strips the internal fields from the records of the caller
save_database_in_place(recs) ==
    LET clean_records == [i \in 1..Len(recs) |-> clean_record(recs[i])] IN
    IF \E i \in 1..Len(recs) : \E n \in 1..Len(required) :
           required[n] \notin DOMAIN clean_records[i]
    THEN [written |-> FALSE, lines |-> <<>>, count |-> 0, records |-> clean_records,
          msg |-> "error: save"]
    ELSE [written |-> TRUE, lines |-> buffer_of(clean_records), count |-> Len(recs),
          records |-> clean_records, msg |-> "saved"]

\* save_database: what it writes, the count in its message, and the list of
\* the caller after the call; a record without a required key raises KeyError
\* before the file is opened, and the except clause returns the error message
save_database(recs) ==
    LET clean_records == [i \in 1..Len(recs) |-> clean_record(recs[i])] IN
    IF \E i \in 1..Len(recs) : \E n \in 1..Len(required) :
           required[n] \notin DOMAIN clean_records[i]
    THEN [written |-> FALSE, lines |-> <<>>, count |-> 0, records |-> recs,
          msg |-> "error: save"]
    ELSE [written |-> TRUE, lines |-> buffer_of(clean_records), count |-> Len(recs),
          records |-> recs, msg |-> "saved"]

\* add_record, the groups offered for a year of birth
available_groups(year) ==
    (IF year \in {2022, 2023} THEN {mladshaya} ELSE {})
    \cup (IF year \in {2020, 2021} THEN {srednyaya} ELSE {})
    \cup (IF year \in {2018, 2019} THEN {starshaya} ELSE {})

\* the quick check of add_record and edit_record: the group's years exclude the year
year_mismatch(group, year) ==
    \/ group = mladshaya /\ year \notin {2022, 2023}
    \/ group = srednyaya /\ year \notin {2020, 2021}
    \/ group = starshaya /\ year \notin {2018, 2019}

\* a date and group loop that does not ask validate_date
date_and_group_accepted_unvalidated(birth_date_in, group_in) ==
    LET birth_date == Strip(birth_date_in)
        group == Lower(Strip(group_in))
    IN /\ ~IntRaises(Split(birth_date, "-")[1])
       /\ available_groups(int_of(Split(birth_date, "-")[1])) # {}
       /\ validate_group(group)
       /\ ~year_mismatch(group, int_of(Split(birth_date, "-")[1]))

\* add_record leaves its date and group loop with these inputs; with any
\* others it prompts again
date_and_group_accepted(birth_date_in, group_in) ==
    LET birth_date == Strip(birth_date_in)
        group == Lower(Strip(group_in))
    IN /\ validate_date(birth_date).ok
       /\ ~IntRaises(Split(birth_date, "-")[1])
       /\ available_groups(int_of(Split(birth_date, "-")[1])) # {}
       /\ validate_group(group)
       /\ ~year_mismatch(group, int_of(Split(birth_date, "-")[1]))

\* add_record leaves a conclusion loop with this input: empty, or one of the two
\* conclusions in any letter case
conclusion_accepted(conclusion_in) ==
    \/ Strip(conclusion_in) = <<>>
    \/ Lower(Strip(conclusion_in)) \in {zdorov, nuzhdaetsya_v_lechenii}

\* add_record, the loop over the four specialists
RECURSIVE add_conclusions(_, _, _)
add_conclusions(new_record, conclusions, i) ==
    IF i > Len(specialists) THEN new_record
    ELSE add_conclusions(
             IF Strip(conclusions[i]) = <<>> THEN new_record
             ELSE Put(new_record, specialists[i], Lower(Strip(conclusions[i]))),
             conclusions, i + 1)

\* add_record with the inputs its loops accepted
add_record(recs, last_name, first_name, birth_date, group, conclusions) ==
    LET new_record ==
            add_conclusions(
                Put(Put(Put(Put(EmptyDict, familiya, Strip(last_name)),
                            imya, Strip(first_name)),
                        data_rozhdeniya, Strip(birth_date)),
                    gruppa, Lower(Strip(group))),
                conclusions, 1)
    IN [records |-> Append(recs, process_records_batch(<<new_record>>)[1]),
        msg |-> "added"]

\* records with record number index replaced by record
Replace(recs, index, record) == [recs EXCEPT ![index] = record]

\* edit_record, field 1
edit_surname(recs, index, input) ==
    LET new_value == Strip(input) IN
    IF new_value # <<>>
    THEN [records |-> process_records_batch(
                          Replace(recs, index, Put(recs[index], familiya, new_value))),
          msg |-> "surname changed"]
    ELSE [records |-> recs, msg |-> "surname changed"]

\* edit_record, field 2
edit_name(recs, index, input) ==
    LET new_value == Strip(input) IN
    IF new_value # <<>>
    THEN [records |-> Replace(recs, index, Put(recs[index], imya, new_value)),
          msg |-> "name changed"]
    ELSE [records |-> recs, msg |-> "name changed"]

\* a birth date edit that checks the date alone, not the record's group
edit_birth_date_unchecked(recs, index, input) ==
    LET new_birth_date == Strip(input)
    IN IF ~validate_date(new_birth_date).ok
       THEN [records |-> recs, msg |-> "error: date"]
       ELSE [records |-> process_records_batch(
                             Replace(recs, index,
                                     Put(recs[index], data_rozhdeniya, new_birth_date))),
             msg |-> "birth date changed"]

\* edit_record, field 3
edit_birth_date(recs, index, input) ==
    LET current_group == recs[index][gruppa]
        new_birth_date == Strip(input)
    IN IF ~validate_date(new_birth_date).ok
       THEN [records |-> recs, msg |-> "error: date"]
       ELSE IF IntRaises(Split(new_birth_date, "-")[1])
       THEN [records |-> recs, msg |-> "error: year unknown"]
       ELSE IF year_mismatch(current_group, int_of(Split(new_birth_date, "-")[1]))
       THEN [records |-> recs, msg |-> "error: year not of the group"]
       ELSE [records |-> process_records_batch(
                             Replace(recs, index,
                                     Put(recs[index], data_rozhdeniya, new_birth_date))),
             msg |-> "birth date changed"]

\* a group edit that checks the name alone, not the record's year of birth
edit_group_unchecked(recs, index, input) ==
    LET new_group == Lower(Strip(input))
    IN IF ~validate_group(new_group)
       THEN [records |-> recs, msg |-> "error: group name"]
       ELSE [records |-> Replace(recs, index, Put(recs[index], gruppa, new_group)),
             msg |-> "group changed"]

\* edit_record, field 4
edit_group(recs, index, input) ==
    LET current_birth_date == recs[index][data_rozhdeniya]
        new_group == Lower(Strip(input))
    IN IF ~validate_group(new_group)
       THEN [records |-> recs, msg |-> "error: group name"]
       ELSE IF IntRaises(Split(current_birth_date, "-")[1])
       THEN [records |-> recs, msg |-> "error: year unknown"]
       ELSE IF year_mismatch(new_group, int_of(Split(current_birth_date, "-")[1]))
       THEN [records |-> recs, msg |-> "error: year not of the group"]
       ELSE [records |-> Replace(recs, index, Put(recs[index], gruppa, new_group)),
             msg |-> "group changed"]

\* a conclusion edit that leaves the cached attributes as they were
edit_conclusion_stale(recs, index, specialist, input) ==
    LET new_value == Lower(Strip(input)) IN
    IF new_value = <<>>
    THEN [records |-> Replace(recs, index, Del(recs[index], specialist)),
          msg |-> "conclusion removed"]
    ELSE IF new_value \in {zdorov, nuzhdaetsya_v_lechenii}
    THEN [records |-> Replace(recs, index, Put(recs[index], specialist, new_value)),
          msg |-> "conclusion changed"]
    ELSE [records |-> recs, msg |-> "error: conclusion"]

\* edit_record, fields 5 to 8
edit_conclusion(recs, index, specialist, input) ==
    LET new_value == Lower(Strip(input)) IN
    IF new_value = <<>>
    THEN [records |-> process_records_batch(
                          Replace(recs, index, Del(recs[index], specialist))),
          msg |-> "conclusion removed"]
    ELSE IF new_value \in {zdorov, nuzhdaetsya_v_lechenii}
    THEN [records |-> process_records_batch(
                          Replace(recs, index, Put(recs[index], specialist, new_value))),
          msg |-> "conclusion changed"]
    ELSE [records |-> recs, msg |-> "error: conclusion"]

specialist_map == [c \in {<<"5">>, <<"6">>, <<"7">>, <<"8">>} |->
                     IF c = <<"5">> THEN nevropatolog
                     ELSE IF c = <<"6">> THEN otolaringolog
                     ELSE IF c = <<"7">> THEN ortoped
                     ELSE okulist]

\* edit_record with the record number choice (0 cancels; any other input that is
\* not the number of a record is asked for again), the field chosen and the
\* new value typed
edit_record(recs, choice, field_input, input) ==
    LET field_choice == Strip(field_input) IN
    IF recs = <<>> THEN [records |-> recs, msg |-> "nothing to edit"]
    ELSE IF choice = 0 THEN [records |-> recs, msg |-> "edit cancelled"]
    ELSE IF field_choice = <<"1">> THEN edit_surname(recs, choice, input)
    ELSE IF field_choice = <<"2">> THEN edit_name(recs, choice, input)
    ELSE IF field_choice = <<"3">> THEN edit_birth_date(recs, choice, input)
    ELSE IF field_choice = <<"4">> THEN edit_group(recs, choice, input)
    ELSE IF field_choice \in DOMAIN specialist_map
    THEN edit_conclusion(recs, choice, specialist_map[field_choice], input)
    ELSE IF field_choice = <<"0">> THEN [records |-> recs, msg |-> "edit cancelled"]
    ELSE [records |-> recs, msg |-> "wrong field"]

\* list.pop(index)
Pop(recs, index) == SubSeq(recs, 1, index - 1) \o SubSeq(recs, index + 1, Len(recs))

\* delete_record with the record number choice (0 cancels)
delete_record(recs, choice) ==
    IF recs = <<>> THEN [records |-> recs, msg |-> "nothing to delete"]
    ELSE IF choice = 0 THEN [records |-> recs, msg |-> "delete cancelled"]
    ELSE [records |-> Pop(recs, choice), msg |-> "deleted"]

---------------------------------------------------------------------------
(* What is typed at the prompts and what data.txt holds: samples that take *)
(* every branch of the handlers.                                           *)

Zima == <<"Z", "i", "m", "a">>
Abel == <<"A", "b", "e", "l">>
Ivan == <<"I", "v", "a", "n">>
Blank == <<" ">>
d2018_03_10 == <<"2", "0", "1", "8", "-", "0", "3", "-", "1", "0">>
d2020_02_29 == <<"2", "0", "2", "0", "-", "0", "2", "-", "2", "9">>
d2022_05_01 == <<"2", "0", "2", "2", "-", "0", "5", "-", "0", "1">>
d2019_04_31 == <<"2", "0", "1", "9", "-", "0", "4", "-", "3", "1">>
d2019_04_30 == <<"2", "0", "1", "9", "-", "0", "4", "-", "3", "0">>
d2022_13_45 == <<"2", "0", "2", "2", "-", "1", "3", "-", "4", "5">>
d2022_ab_01 == <<"2", "0", "2", "2", "-", "a", "b", "-", "0", "1">>
d2021_05_05 == <<"2", "0", "2", "1", "-", "0", "5", "-", "0", "5">>
StarshayaPadded == <<" ", "S", "t", "a", "r", "s", "h", "a", "y", "a", " ">>
Srednyaya == <<"S", "r", "e", "d", "n", "y", "a", "y", "a">>
podgotovitelnaya == <<"p", "o", "d", "g", "o", "t", "o", "v", "i", "t", "e", "l", "n", "a", "y", "a">>
Zdorov == <<"Z", "d", "o", "r", "o", "v">>
bolen == <<"b", "o", "l", "e", "n">>
FamiliyaKey == <<"F", "a", "m", "i", "l", "i", "y", "a">>
d2018 == <<"2", "0", "1", "8">>
zametka == <<"z", "a", "m", "e", "t", "k", "a">>
da == <<"d", "a">>

SurnameInputs == {Abel, Blank}
NameInputs == {Ivan, <<>>}
DateInputs == {d2019_04_30, d2020_02_29, d2022_05_01, d2019_04_31}
GroupInputs == {srednyaya, StarshayaPadded, mladshaya, podgotovitelnaya}
ConclusionInputs == {<<>>, Zdorov, nuzhdaetsya_v_lechenii, bolen}
\* the field chosen in edit_record; of the four specialists the first and the
\* last are edited
FieldInputs == {<<"0">>, <<"1">>, <<"2">>, <<"3">>, <<"4">>, <<"5">>, <<"8">>, <<"9">>}
\* what is typed at the prompt of the field chosen
InputsFor(field_choice) ==
    IF field_choice = <<"1">> THEN SurnameInputs
    ELSE IF field_choice = <<"2">> THEN NameInputs
    ELSE IF field_choice = <<"3">> THEN DateInputs
    ELSE IF field_choice = <<"4">> THEN GroupInputs
    ELSE IF field_choice \in {<<"5">>, <<"8">>} THEN ConclusionInputs
    ELSE {<<>>}
\* the four conclusions typed in one run of add_record
AddConclusionInputs == {<<<<>>, <<>>, <<>>, <<>>>>,
                        <<Zdorov, <<>>, <<>>, nuzhdaetsya_v_lechenii>>}

\* blocks of data.txt, without the blank line that ends them
BlockGood == <<FieldLine(FamiliyaKey, Zima), FieldLine(imya, Ivan),
               FieldLine(data_rozhdeniya, d2018_03_10), FieldLine(gruppa, starshaya),
               FieldLine(nevropatolog, Zdorov), FieldLine(k_needs_treatment, da)>>
BlockBadDate == <<FieldLine(familiya, Zima), FieldLine(imya, Ivan),
                  FieldLine(data_rozhdeniya, d2022_13_45), FieldLine(gruppa, mladshaya),
                  FieldLine(okulist, bolen)>>
BlockUpperGroup == <<FieldLine(familiya, Zima), FieldLine(imya, Ivan),
                     FieldLine(data_rozhdeniya, d2021_05_05), FieldLine(gruppa, Srednyaya)>>
BlockNoName == <<FieldLine(familiya, Zima),
                 FieldLine(data_rozhdeniya, d2018_03_10), FieldLine(gruppa, starshaya)>>
BlockWrongYear == <<FieldLine(familiya, Zima), FieldLine(imya, Ivan),
                    FieldLine(data_rozhdeniya, d2018_03_10), FieldLine(gruppa, srednyaya)>>
BlockTextDate == <<FieldLine(familiya, Abel), FieldLine(imya, Ivan),
                   FieldLine(data_rozhdeniya, d2022_ab_01), FieldLine(gruppa, mladshaya)>>

RECURSIVE Flatten(_)
Flatten(chunks) == IF chunks = <<>> THEN <<>> ELSE Head(chunks) \o Flatten(Tail(chunks))

NoFile == [exists |-> FALSE, lines |-> <<>>]
TextFile(lines) == [exists |-> TRUE, lines |-> lines]

\* data.txt as the program finds it at its start
SampleFile == TextFile(BlockGood \o <<<<>>>> \o BlockUpperGroup \o <<<<>>, zametka, <<>>>>
                       \o BlockWrongYear \o <<Blank>> \o BlockBadDate)

\* a file whose one record has a key save_database does not know and a
\* conclusion left empty
BlockNoted == <<FieldLine(familiya, Zima), FieldLine(imya, Ivan),
                FieldLine(data_rozhdeniya, d2020_02_29), FieldLine(gruppa, srednyaya),
                FieldLine(zametka, da), FieldLine(okulist, <<>>)>>
NotedFile == TextFile(BlockNoted)
SaveFiles == {SampleFile, NotedFile}

\* pieces of which the files of the load specification are made: a blank line,
\* a line without a colon, blocks with the blank line that ends them, and blocks
\* and a single field line without it, which form one block with the piece that
\* follows
Chunks == {<<<<>>>>, <<zametka>>, BlockGood \o <<<<>>>>, BlockBadDate \o <<Blank>>,
           BlockUpperGroup \o <<<<>>>>, BlockNoName, BlockTextDate,
           <<FieldLine(gruppa, mladshaya)>>}
ChunkSeqs == UNION {[1..n -> Chunks] : n \in 0..MaxChunks}
LoadFiles == {NoFile} \cup {TextFile(Flatten(cs)) : cs \in ChunkSeqs}

---------------------------------------------------------------------------
(* The program: the collection is empty until load_database has run, then  *)
(* the menu runs the handlers in any order.                                *)

Init ==
    /\ file = SampleFile
    /\ records = <<>>
    /\ report = <<>>
    /\ saved = <<>>
    /\ in_date = <<>>
    /\ in_group = <<>>
    /\ verdict = <<>>
    /\ arr = <<>>
    /\ key_func = "none"
    /\ reverse = FALSE
    /\ result = <<>>
    /\ again = <<>>
    /\ frames = <<>>

Load ==
    LET r == load_database(file) IN
    /\ records' = r.records
    /\ report' = <<r.valid_records, r.skipped_records>>
    /\ UNCHANGED <<file, saved, sortvars, checkvars>>

Add ==
    /\ Len(records) < MaxRecords
    /\ \E last_name \in SurnameInputs, first_name \in NameInputs,
          birth_date \in DateInputs, group \in GroupInputs,
          conclusions \in AddConclusionInputs :
          /\ Strip(last_name) # <<>>
          /\ Strip(first_name) # <<>>
          /\ date_and_group_accepted(birth_date, group)
          /\ \A i \in 1..Len(specialists) : conclusion_accepted(conclusions[i])
          /\ LET r == add_record(records, last_name, first_name, birth_date, group,
                                 conclusions)
             IN records' = r.records
    /\ UNCHANGED <<file, report, saved, sortvars, checkvars>>

Edit ==
    /\ \E choice \in 0..Len(records), field_choice \in FieldInputs :
       \E input \in InputsFor(field_choice) :
          LET r == edit_record(records, choice, field_choice, input)
          IN records' = r.records
    /\ UNCHANGED <<file, report, saved, sortvars, checkvars>>

Delete ==
    /\ \E choice \in 0..Len(records) :
          LET r == delete_record(records, choice)
          IN records' = r.records
    /\ UNCHANGED <<file, report, saved, sortvars, checkvars>>

Next == Load \/ Add \/ Edit \/ Delete

Spec == Init /\ [][Next]_vars

---------------------------------------------------------------------------
(* load_database alone, on every file made of at most MaxChunks pieces.    *)

InitLoad ==
    /\ file \in LoadFiles
    /\ records = <<>>
    /\ report = <<>>
    /\ saved = <<>>
    /\ in_date = <<>>
    /\ in_group = <<>>
    /\ verdict = <<>>
    /\ arr = <<>>
    /\ key_func = "none"
    /\ reverse = FALSE
    /\ result = <<>>
    /\ again = <<>>
    /\ frames = <<>>

NextLoad == Load

SpecLoad == InitLoad /\ [][NextLoad]_vars

---------------------------------------------------------------------------
(* A session that works on the collection and saves it, and the load of    *)
(* the file it saved: the handlers run in any order until save_database    *)
(* has run, then load_database reads the file back.                        *)

InitSave ==
    /\ file \in SaveFiles
    /\ records = <<>>
    /\ report = <<>>
    /\ saved = <<>>
    /\ in_date = <<>>
    /\ in_group = <<>>
    /\ verdict = <<>>
    /\ arr = <<>>
    /\ key_func = "none"
    /\ reverse = FALSE
    /\ result = <<>>
    /\ again = <<>>
    /\ frames = <<>>

Work ==
    /\ saved = <<>>
    /\ Next

Save ==
    /\ saved = <<>>
    /\ LET r == save_database(records) IN
       /\ file' = IF r.written THEN TextFile(r.lines) ELSE file
       /\ records' = r.records
       /\ report' = <<r.count>>
    /\ saved' = <<records>>
    /\ UNCHANGED <<sortvars, checkvars>>

Reload ==
    /\ saved # <<>>
    /\ Load

NextSave == Work \/ Save \/ Reload

SpecSave == InitSave /\ [][NextSave]_vars

---------------------------------------------------------------------------
(* The validators alone: validate_date and validate_group_by_birth_year on *)
(* dates of every shape and on known and unknown groups.                   *)

YearStrings == {<<"2", "0", a, b>> : a \in {"0", "1", "2"}, b \in DigitSet}
                   \cup {<<"2", "0", "1", "^">>, <<"2", "0", "a", "8">>, <<>>,
                         <<"0", "2", "0", "1", "6">>}
MonthStrings == {<<"0", "0">>, <<"0", "1">>, <<"0", "2">>, <<"2">>, <<"0", "4">>,
                 <<"0", "6">>, <<"0", "9">>, <<"1", "1">>, <<"1", "2">>, <<"1", "3">>,
                 <<"a", "b">>}
DayStrings == {<<"0", "0">>, <<"0", "1">>, <<"2", "8">>, <<"2", "9">>, <<"3", "0">>,
               <<"3", "1">>, <<"3", "2">>, <<"^">>}
d2018_03 == <<"2", "0", "1", "8", "-", "0", "3">>
d2018_03_10_01 == <<"2", "0", "1", "8", "-", "0", "3", "-", "1", "0", "-", "0", "1">>
d2018_slashes == <<"2", "0", "1", "8", "/", "0", "3", "/", "1", "0">>
CheckDates == {y \o <<"-">> \o m \o <<"-">> \o d :
                   y \in YearStrings, m \in MonthStrings, d \in DayStrings}
                  \cup {<<>>, d2018, d2018_03, d2018_03_10_01, d2018_slashes}
CheckGroups == {mladshaya, srednyaya, starshaya, Srednyaya, podgotovitelnaya, <<>>}

InitCheck ==
    /\ file = NoFile
    /\ records = <<>>
    /\ report = <<>>
    /\ saved = <<>>
    /\ in_date \in CheckDates
    /\ in_group \in CheckGroups
    /\ verdict = <<>>
    /\ arr = <<>>
    /\ key_func = "none"
    /\ reverse = FALSE
    /\ result = <<>>
    /\ again = <<>>
    /\ frames = <<>>

Validate ==
    /\ verdict = <<>>
    /\ verdict' = <<[date |-> validate_date(in_date),
                     group |-> validate_group_by_birth_year(in_date, in_group)]>>
    /\ UNCHANGED <<dbvars, sortvars, in_date, in_group>>

NextCheck == Validate

SpecCheck == InitCheck /\ [][NextCheck]_vars

---------------------------------------------------------------------------
(* process_records_batch alone, on lists of records whose four specialist  *)
(* fields are absent or hold a conclusion in either letter case, another   *)
(* word, or nothing.                                                       *)

NuzhdaetsyaUpper == <<"N", "u", "z", "h", "d", "a", "e", "t", "s", "y", "a", " ", "v", " ", "l", "e", "c", "h", "e", "n", "i", "i">>
Absent == "absent"
BatchValues == {Absent, zdorov, Zdorov, nuzhdaetsya_v_lechenii, NuzhdaetsyaUpper,
                bolen, <<>>}
BaseRecord == Put(Put(Put(EmptyDict, familiya, Zima), data_rozhdeniya, d2022_05_01),
                  gruppa, mladshaya)

\* the base record with the conclusions vs, from specialist i on
RECURSIVE WithConclusions(_, _, _)
WithConclusions(record, vs, i) ==
    IF i > Len(specialists) THEN record
    ELSE WithConclusions(IF vs[i] = Absent THEN record
                         ELSE Put(record, specialists[i], vs[i]), vs, i + 1)

RawRecords == {WithConclusions(BaseRecord, vs, 1) : vs \in [1..4 -> BatchValues]}
RawPairs == {<<WithConclusions(BaseRecord, <<a, Absent, Absent, b>>, 1),
               WithConclusions(BaseRecord, <<b, a, Absent, Absent>>, 1)>> :
                 a \in {Zdorov, NuzhdaetsyaUpper}, b \in {Absent, nuzhdaetsya_v_lechenii}}

InitBatch ==
    /\ file = NoFile
    /\ records \in {<<>>} \cup {<<r>> : r \in RawRecords} \cup RawPairs
    /\ report = <<>>
    /\ saved = <<>>
    /\ in_date = <<>>
    /\ in_group = <<>>
    /\ verdict = <<>>
    /\ arr = <<>>
    /\ key_func = "none"
    /\ reverse = FALSE
    /\ result = <<>>
    /\ again = <<>>
    /\ frames = <<>>

Process ==
    /\ \A i \in 1..Len(records) : k_healthy_count \notin DOMAIN records[i]
    /\ records' = process_records_batch(records)
    /\ UNCHANGED <<file, report, saved, sortvars, checkvars>>

NextBatch == Process

SpecBatch == InitBatch /\ [][NextBatch]_vars

---------------------------------------------------------------------------
(* sort.py.  A key is a sequence of integers and keys compare as Python    *)
(* compares tuples; key_func names the function that computes the key.     *)

\* k1 < k2 for tuples of integers
RECURSIVE KeyLess(_, _)
KeyLess(k1, k2) ==
    IF k2 = <<>> THEN FALSE
    ELSE IF k1 = <<>> THEN TRUE
    ELSE IF Head(k1) # Head(k2) THEN Head(k1) < Head(k2)
    ELSE KeyLess(Tail(k1), Tail(k2))

\* key_func of sort_by_birth_date, for a date whose three parts int() converts
birth_date_key(record) ==
    LET parts == Split(record[data_rozhdeniya], "-") IN
    IF Len(parts) = 3
    THEN <<int_of(parts[1]), int_of(parts[2]), int_of(parts[3])>>
    ELSE <<0, 0, 0>>

\* key_func of sort_by_birth_date raises ValueError: int() of a part that is no number
birth_date_key_raises(record) ==
    LET parts == Split(record[data_rozhdeniya], "-") IN
    Len(parts) = 3 /\ \E n \in 1..3 : IntRaises(parts[n])

\* the characters of the model in the order of their code points
CharOrder == <<" ", "-">> \o DigitChars \o <<":">> \o UpperLetters \o <<"^", "_">>
                 \o LowerLetters

\* the place of a character in that order
Ord(c) == CHOOSE i \in 1..Len(CharOrder) : CharOrder[i] = c

\* a string as the tuple of the places of its characters: two strings compare
\* as Python compares them exactly when these tuples compare so
Ords(str) == [i \in 1..Len(str) |-> Ord(str[i])]

\* a key of sort_by_health_then_name that keeps the letter case of the surname
health_key_cased(record) ==
    <<0 - Get(record, k_healthy_count, 0)>> \o Ords(record[familiya])

\* key_func of sort_by_health_then_name, (-healthy, surname.lower()): the tuple
\* of the number and the places of the characters compares as the pair does
health_key(record) ==
    <<0 - Get(record, k_healthy_count, 0)>> \o Ords(Lower(record[familiya]))

\* key_func(item): the first or the second component of a pair, the key of
\* sort_by_health_then_name, or the key of sort_by_birth_date
key_of(kf, item) ==
    IF kf = "first" THEN <<item[1]>>
    ELSE IF kf = "second" THEN <<item[2]>>
    ELSE IF kf = "health" THEN health_key(item)
    ELSE birth_date_key(item)

key_raises(kf, item) == kf = "birth_date" /\ birth_date_key_raises(item)

Reverse(s) == [i \in 1..Len(s) |-> s[Len(s) + 1 - i]]

\* a descending sort taken as the ascending sort read backwards
RECURSIVE quicksort_backwards(_, _, _)
quicksort_backwards(a, kf, rev) ==
    IF Len(a) <= 1 THEN a
    ELSE IF rev THEN Reverse(quicksort_backwards(a, kf, FALSE))
    ELSE LET pivot_key == key_of(kf, a[(Len(a) \div 2) + 1])
             less == SelectSeq(a, LAMBDA item : KeyLess(key_of(kf, item), pivot_key))
             equal == SelectSeq(a, LAMBDA item : key_of(kf, item) = pivot_key)
             greater == SelectSeq(a, LAMBDA item :
                            /\ ~KeyLess(key_of(kf, item), pivot_key)
                            /\ key_of(kf, item) # pivot_key)
         IN quicksort_backwards(less, kf, rev) \o equal
            \o quicksort_backwards(greater, kf, rev)

\* a partition that keeps the pivot alone in the middle
RECURSIVE quicksort_pivot_only(_, _, _)
quicksort_pivot_only(a, kf, rev) ==
    IF Len(a) <= 1 THEN a
    ELSE LET pivot == a[(Len(a) \div 2) + 1]
             pivot_key == key_of(kf, pivot)
             less == SelectSeq(a, LAMBDA item : KeyLess(key_of(kf, item), pivot_key))
             greater == SelectSeq(a, LAMBDA item :
                            /\ ~KeyLess(key_of(kf, item), pivot_key)
                            /\ key_of(kf, item) # pivot_key)
         IN IF rev
            THEN quicksort_pivot_only(greater, kf, rev) \o <<pivot>>
                 \o quicksort_pivot_only(less, kf, rev)
            ELSE quicksort_pivot_only(less, kf, rev) \o <<pivot>>
                 \o quicksort_pivot_only(greater, kf, rev)

\* quicksort(arr, key_func, reverse) when key_func raises for no item
RECURSIVE quicksort(_, _, _)
quicksort(a, kf, rev) ==
    IF Len(a) <= 1 THEN a
    ELSE LET pivot == a[(Len(a) \div 2) + 1]
             pivot_key == key_of(kf, pivot)
             less == SelectSeq(a, LAMBDA item : KeyLess(key_of(kf, item), pivot_key))
             equal == SelectSeq(a, LAMBDA item : key_of(kf, item) = pivot_key)
             greater == SelectSeq(a, LAMBDA item :
                            /\ ~KeyLess(key_of(kf, item), pivot_key)
                            /\ key_of(kf, item) # pivot_key)
         IN IF rev
            THEN quicksort(greater, kf, rev) \o equal \o quicksort(less, kf, rev)
            ELSE quicksort(less, kf, rev) \o equal \o quicksort(greater, kf, rev)

\* a call of quicksort: the list it returns, or the exception of key_func, which
\* the first call computes for the pivot and for every item unless the list has
\* at most one item
quicksort_call(a, kf, rev) ==
    IF Len(a) > 1 /\ \E n \in 1..Len(a) : key_raises(kf, a[n])
    THEN [raised |-> TRUE, value |-> <<>>]
    ELSE [raised |-> FALSE, value |-> quicksort(a, kf, rev)]

sort_by_birth_date(recs) == quicksort_call(recs, "birth_date", FALSE)

sort_by_health_then_name(recs) == quicksort_call(recs, "health", FALSE)

---------------------------------------------------------------------------
(* The sort engine alone: quicksort on every list of at most MaxLen pairs  *)
(* by either component and in either direction, and sort_by_birth_date on  *)
(* every list of at most MaxLen records; then the result sorted again.     *)

PairItems == {<<a, b>> : a \in 1..2, b \in 1..3}
DateItems == {Put(EmptyDict, data_rozhdeniya, d) :
                  d \in {d2018_03_10, d2020_02_29, d2018, d2022_ab_01}}
Abramov == <<"A", "b", "r", "a", "m", "o", "v">>
abramov == <<"a", "b", "r", "a", "m", "o", "v">>
Orlov == <<"O", "r", "l", "o", "v">>

\* a record of the working collection with a surname and count conclusions of
\* zdorov, its derived attributes computed
HealthRecord(surname, count) ==
    process_record(
        WithConclusions(Put(BaseRecord, familiya, surname),
                        [n \in 1..4 |-> IF n <= count THEN zdorov ELSE Absent], 1))

HealthItems == {HealthRecord(Zima, 4), HealthRecord(Abramov, 2), HealthRecord(Abel, 4),
                HealthRecord(Orlov, 0), HealthRecord(abramov, 4), HealthRecord(Abel, 2)}
SeqsOf(S) == UNION {[1..n -> S] : n \in 0..MaxLen}

InitSort ==
    /\ file = NoFile
    /\ records = <<>>
    /\ report = <<>>
    /\ saved = <<>>
    /\ in_date = <<>>
    /\ in_group = <<>>
    /\ verdict = <<>>
    /\ \/ arr \in SeqsOf(PairItems) /\ key_func \in {"first", "second"}
          /\ reverse \in BOOLEAN
       \/ arr \in SeqsOf(DateItems) /\ key_func = "birth_date" /\ reverse = FALSE
       \/ arr \in SeqsOf(HealthItems) /\ key_func = "health" /\ reverse = FALSE
    /\ result = <<>>
    /\ again = <<>>
    /\ frames = <<>>

Sort ==
    /\ result = <<>>
    /\ result' = <<IF key_func = "birth_date" THEN sort_by_birth_date(arr)
                    ELSE IF key_func = "health" THEN sort_by_health_then_name(arr)
                    ELSE quicksort_call(arr, key_func, reverse)>>
    /\ UNCHANGED <<dbvars, checkvars, arr, key_func, reverse, again, frames>>

SortAgain ==
    /\ result # <<>>
    /\ ~result[1].raised
    /\ again = <<>>
    /\ again' = <<quicksort_call(result[1].value, key_func, reverse)>>
    /\ UNCHANGED <<dbvars, checkvars, arr, key_func, reverse, result, frames>>

NextSort == Sort \/ SortAgain

SpecSort == InitSort /\ [][NextSort]_vars

---------------------------------------------------------------------------
(* One call of quicksort, step by step.  A frame is a call still to be     *)
(* made or a group of items in its place; the leftmost call is made next,  *)
(* as Python evaluates the left operand of + first.  A call of a list of   *)
(* at most one item returns it; any other call partitions its list and     *)
(* leaves the call of one outer group, the equal group, and the call of    *)
(* the other outer group.  When no call is left the groups joined are what *)
(* the first call returns.                                                 *)

\* a partition that sends the items of the pivot's key to the greater group
partition_no_equal(a, kf) ==
    LET pivot_key == key_of(kf, a[(Len(a) \div 2) + 1])
    IN [less |-> SelectSeq(a, LAMBDA item : KeyLess(key_of(kf, item), pivot_key)),
        equal |-> <<>>,
        greater |-> SelectSeq(a, LAMBDA item : ~KeyLess(key_of(kf, item), pivot_key))]

\* quicksort, the three groups of a list of two or more items
partition(a, kf) ==
    LET pivot_key == key_of(kf, a[(Len(a) \div 2) + 1])
    IN [less |-> SelectSeq(a, LAMBDA item : KeyLess(key_of(kf, item), pivot_key)),
        equal |-> SelectSeq(a, LAMBDA item : key_of(kf, item) = pivot_key),
        greater |-> SelectSeq(a, LAMBDA item :
                        /\ ~KeyLess(key_of(kf, item), pivot_key)
                        /\ key_of(kf, item) # pivot_key)]

CallFrame(a) == [call |-> TRUE, items |-> a]
GroupFrame(a) == [call |-> FALSE, items |-> a]

HasCall == \E n \in 1..Len(frames) : frames[n].call
NextCall == CHOOSE n \in 1..Len(frames) :
                frames[n].call /\ \A m \in 1..(n - 1) : ~frames[m].call

\* the items of the frames, joined
RECURSIVE Joined(_)
Joined(fs) == IF fs = <<>> THEN <<>> ELSE Head(fs).items \o Joined(Tail(fs))

InitRun ==
    /\ file = NoFile
    /\ records = <<>>
    /\ report = <<>>
    /\ saved = <<>>
    /\ in_date = <<>>
    /\ in_group = <<>>
    /\ verdict = <<>>
    /\ arr \in SeqsOf(PairItems)
    /\ key_func \in {"first", "second"}
    /\ reverse \in BOOLEAN
    /\ result = <<>>
    /\ again = <<>>
    /\ frames = <<CallFrame(arr)>>

\* the base case: if len(arr) <= 1: return arr
QuicksortBase ==
    /\ HasCall
    /\ Len(frames[NextCall].items) <= 1
    /\ frames' = [frames EXCEPT ![NextCall] = GroupFrame(@.items)]
    /\ UNCHANGED <<dbvars, checkvars, arr, key_func, reverse, result, again>>

\* the partition and the two recursive calls it leaves to be made
QuicksortSplit ==
    /\ HasCall
    /\ Len(frames[NextCall].items) > 1
    /\ LET p == partition(frames[NextCall].items, key_func)
           n == NextCall
       IN frames' = SubSeq(frames, 1, n - 1)
                    \o (IF reverse
                        THEN <<CallFrame(p.greater), GroupFrame(p.equal), CallFrame(p.less)>>
                        ELSE <<CallFrame(p.less), GroupFrame(p.equal), CallFrame(p.greater)>>)
                    \o SubSeq(frames, n + 1, Len(frames))
    /\ UNCHANGED <<dbvars, checkvars, arr, key_func, reverse, result, again>>

\* the first call returns
QuicksortReturn ==
    /\ frames # <<>>
    /\ ~HasCall
    /\ result = <<>>
    /\ result' = <<[raised |-> FALSE, value |-> Joined(frames)]>>
    /\ UNCHANGED <<dbvars, checkvars, arr, key_func, reverse, again, frames>>

NextRun == QuicksortBase \/ QuicksortSplit \/ QuicksortReturn

\* the interpreter runs a call to its end: a step that can be taken is taken
SpecRun == InitRun /\ [][NextRun]_vars /\ WF_vars(NextRun)

---------------------------------------------------------------------------
(* Notions the claims are stated with.                                     *)

KnownGroups == {mladshaya, srednyaya, starshaya}
AdmissibleYears(group) ==
    IF group = mladshaya THEN {2022, 2023}
    ELSE IF group = srednyaya THEN {2020, 2021}
    ELSE IF group = starshaya THEN {2018, 2019}
    ELSE {}
CanonicalConclusions == {zdorov, nuzhdaetsya_v_lechenii}
DerivedKeys == {k_healthy_count, k_needs_treatment, k_needs_specialists}
RequiredKeys == {familiya, imya, data_rozhdeniya, gruppa}

\* the year component of a date string, -1 when it is not a number
YearOf(date_str) ==
    LET year_str == Split(date_str, "-")[1]
    IN IF IsDecimal(year_str) THEN ToInt(year_str) ELSE -1

\* a record without its derived attributes
Stored(record) == [k \in (DOMAIN record) \ DerivedKeys |-> record[k]]

\* the blocks of a text: the maximal runs of lines that are not blank
RECURSIVE BlocksFrom(_, _, _)
BlocksFrom(lines, i, block) ==
    IF i > Len(lines) THEN (IF block = <<>> THEN <<>> ELSE <<block>>)
    ELSE IF Strip(lines[i]) = <<>>
    THEN (IF block = <<>> THEN <<>> ELSE <<block>>) \o BlocksFrom(lines, i + 1, <<>>)
    ELSE BlocksFrom(lines, i + 1, Append(block, lines[i]))
TextBlocks(lines) == BlocksFrom(lines, 1, <<>>)

\* the fields of a block: of each line with a colon, the key before the first
\* colon in lower case and the value after it, a later line overriding an earlier
RECURSIVE FieldsFrom(_, _)
FieldsFrom(block, n) ==
    IF n = 0 THEN EmptyDict
    ELSE LET line == Strip(block[n])
             before == FieldsFrom(block, n - 1)
         IN IF Contains(line, ":")
            THEN LET c == CHOOSE k \in 1..Len(line) :
                              line[k] = ":" /\ \A j \in 1..(k - 1) : line[j] # ":"
                 IN Put(before, Lower(Strip(SubSeq(line, 1, c - 1))),
                        Strip(SubSeq(line, c + 1, Len(line))))
            ELSE before
FieldsOf(block) == FieldsFrom(block, Len(block))

HasColonLine(block) == \E n \in 1..Len(block) : Contains(block[n], ":")

\* the fields of a block that are not keys of derived attributes
StoredFieldsOf(block) == Stored(FieldsOf(block))

\* a block has the four required keys and its cohort admits its year of birth
BlockAcceptable(block) ==
    LET f == FieldsOf(block)
    IN /\ RequiredKeys \subseteq DOMAIN f
       /\ f[gruppa] \in KnownGroups
       /\ YearOf(f[data_rozhdeniya]) \in AdmissibleYears(f[gruppa])

RECURSIVE AcceptableFields(_)
AcceptableFields(blocks) ==
    IF blocks = <<>> THEN <<>>
    ELSE (IF BlockAcceptable(Head(blocks)) THEN <<StoredFieldsOf(Head(blocks))>> ELSE <<>>)
         \o AcceptableFields(Tail(blocks))

StoredAll(recs) == [i \in 1..Len(recs) |-> Stored(recs[i])]

---------------------------------------------------------------------------
(* C1: after any sequence of load_database, add_record, edit_record and    *)
(* delete_record, every record of the working collection has one of the    *)
(* three cohort names, and the two years of that cohort include the year   *)
(* of the record's birth date.                                             *)
C1_CohortAdmitsYear ==
    \A i \in 1..Len(records) :
        /\ records[i][gruppa] \in KnownGroups
        /\ YearOf(records[i][data_rozhdeniya]) \in AdmissibleYears(records[i][gruppa])

\* a collection loaded from the file whose first record has since been given a
\* new surname and a new birth date, both typed in
C1_Witness ==
    /\ report # <<>>
    /\ Len(records) = 2
    /\ records[1][familiya] = Abel
    /\ records[1][data_rozhdeniya] = d2019_04_30
    /\ records[2][gruppa] = mladshaya

(* C2: after any sequence of the four operations every record carries     *)
(* _healthy_count, _needs_treatment and _needs_specialists, each equal to  *)
(* what process_records_batch computes from the record as it is now.       *)
C2_CacheFresh ==
    \A i \in 1..Len(records) :
        /\ DerivedKeys \subseteq DOMAIN records[i]
        /\ \A k \in DerivedKeys :
              records[i][k] = process_records_batch(<<Stored(records[i])>>)[1][k]

\* a loaded record whose conclusions were edited: one removed, one entered
C2_Witness ==
    /\ report # <<>>
    /\ Len(records) >= 1
    /\ records[1][familiya] = Zima
    /\ nevropatolog \notin DOMAIN records[1]
    /\ okulist \in DOMAIN records[1]
    /\ records[1][okulist] = nuzhdaetsya_v_lechenii
    /\ records[1][k_needs_specialists] = <<okulist>>
    /\ records[1][k_healthy_count] = 0

(* C3 as claimed: load_database keeps exactly the blocks that have the     *)
(* four required keys and whose cohort admits the year of birth, in the    *)
(* order of the file and whole; the valid count reported is the length of  *)
(* the list returned (a key of a derived attribute apart, which the cache  *)
(* overwrites); and the valid and the skipped count add up to the          *)
(* number of non-empty blocks of the file.                                 *)
C3_CountsEveryBlock ==
    report # <<>> =>
        LET blocks == TextBlocks(file.lines)
        IN /\ StoredAll(records) = AcceptableFields(blocks)
           /\ report[1] = Len(records)
           /\ report[1] + report[2] = Len(blocks)

(* C3 as amended: the same, the two counts adding up to the number of      *)
(* blocks that have at least one line with a colon; a block none of whose  *)
(* lines has a colon is neither kept nor counted.                          *)
C3_CountsFieldBlocks ==
    report # <<>> =>
        LET blocks == TextBlocks(file.lines)
        IN /\ StoredAll(records) = AcceptableFields(blocks)
           /\ report[1] = Len(records)
           /\ report[1] + report[2]
                = Cardinality({n \in 1..Len(blocks) : HasColonLine(blocks[n])})

\* a file with a kept block, a dropped block and a kept last block that no
\* blank line follows
C3_Witness ==
    /\ report = <<2, 1>>
    /\ Len(TextBlocks(file.lines)) = 3
    /\ Strip(file.lines[Len(file.lines)]) # <<>>
    /\ Len(records) = 2

(* C4: every record load_database accepts has a birth date that            *)
(* validate_date accepts.                                                  *)
C4_LoadedDatesValid ==
    report # <<>> =>
        \A i \in 1..Len(records) : validate_date(records[i][data_rozhdeniya]).ok

(* C5: a block read by load_database that has the four required keys and   *)
(* whose cohort is, letter case apart, a known name that admits the year   *)
(* of birth is accepted, its cohort held in lower case.                    *)
C5_LoadIgnoresCase ==
    report # <<>> =>
        LET blocks == TextBlocks(file.lines) IN
        \A n \in 1..Len(blocks) :
            LET f == FieldsOf(blocks[n]) IN
            (/\ RequiredKeys \subseteq DOMAIN f
             /\ Lower(f[gruppa]) \in KnownGroups
             /\ YearOf(f[data_rozhdeniya]) \in AdmissibleYears(Lower(f[gruppa])))
            => \E i \in 1..Len(records) :
                  Stored(records[i]) = Stored([f EXCEPT ![gruppa] = Lower(f[gruppa])])

(* C6: after any sequence of load_database, add_record and edit_record     *)
(* each of the four specialist fields of every record is absent or holds   *)
(* one of the two canonical conclusions.                                   *)
C6_ConclusionsCanonical ==
    \A i \in 1..Len(records) :
        \A n \in 1..Len(specialists) :
            specialists[n] \in DOMAIN records[i]
                => records[i][specialists[n]] \in CanonicalConclusions

\* the items of a list whose key is k, in the order of the list
WithKey(list, kf, k) == SelectSeq(list, LAMBDA item : key_of(kf, item) = k)

\* how often an item occurs in a list
Count(list, item) == Cardinality({n \in 1..Len(list) : list[n] = item})

\* k1 <= k2 as tuples of integers
KeyLeq(k1, k2) == k1 = k2 \/ KeyLess(k1, k2)

(* C7: quicksort is stable in both directions: the items of any one key    *)
(* come out in the order they went in, as in the example of the pairs      *)
(* (B,1), (A,2), (A,1) sorted by the second component (A = 1, B = 2).      *)
C7_Stable ==
    (result # <<>> /\ key_func \in {"first", "second"}) =>
        /\ ~result[1].raised
        /\ \A n \in 1..Len(arr) :
              WithKey(result[1].value, key_func, key_of(key_func, arr[n]))
                = WithKey(arr, key_func, key_of(key_func, arr[n]))
        /\ (arr = <<<<2, 1>>, <<1, 2>>, <<1, 1>>>> /\ key_func = "second" /\ ~reverse)
              => result[1].value = <<<<2, 1>>, <<1, 1>>, <<1, 2>>>>

\* the pairs of the example sorted by the second component, descending
C7_Witness ==
    /\ arr = <<<<2, 1>>, <<1, 2>>, <<1, 1>>>>
    /\ key_func = "second"
    /\ reverse
    /\ result # <<>>
    /\ result[1].value = <<<<1, 2>>, <<2, 1>>, <<1, 1>>>>

(* C8: quicksort returns a permutation of its input, each item as often as *)
(* in the input, with keys that never decrease when reverse is false and   *)
(* never increase when it is true, and the input list is left as it was.   *)
C8_SortedPermutation ==
    /\ [](result # <<>> /\ ~result[1].raised =>
            LET out == result[1].value IN
            /\ Len(out) = Len(arr)
            /\ \A n \in 1..Len(arr) : Count(out, arr[n]) = Count(arr, arr[n])
            /\ \A n \in 1..(Len(out) - 1) :
                  IF reverse
                  THEN KeyLeq(key_of(key_func, out[n + 1]), key_of(key_func, out[n]))
                  ELSE KeyLeq(key_of(key_func, out[n]), key_of(key_func, out[n + 1])))
    /\ [][arr' = arr]_vars

\* four pairs, one of them twice, sorted by the second component, descending
C8_Witness ==
    /\ arr = <<<<1, 3>>, <<2, 1>>, <<1, 3>>, <<1, 2>>>>
    /\ key_func = "second"
    /\ reverse
    /\ result # <<>>
    /\ result[1].value = <<<<1, 3>>, <<1, 3>>, <<1, 2>>, <<2, 1>>>>

(* C9: quicksort is idempotent: its output sorted again with the same key  *)
(* function and direction is the same sequence, item by item.              *)
C9_Idempotent ==
    again # <<>> => (~again[1].raised /\ again[1].value = result[1].value)

\* an unsorted list with two items of one key, sorted descending and sorted again
C9_Witness ==
    /\ again # <<>>
    /\ reverse
    /\ key_func = "first"
    /\ arr = <<<<1, 2>>, <<2, 3>>, <<1, 1>>, <<2, 1>>>>
    /\ result[1].value = <<<<2, 3>>, <<2, 1>>, <<1, 2>>, <<1, 1>>>>

\* the key C10 gives a record: (0,0,0) unless its date is three numbers
C10_Key(record) ==
    LET parts == Split(record[data_rozhdeniya], "-") IN
    IF Len(parts) = 3 /\ \A n \in 1..3 : ~IntRaises(parts[n])
    THEN <<int_of(parts[1]), int_of(parts[2]), int_of(parts[3])>>
    ELSE <<0, 0, 0>>

(* C10: sort_by_birth_date never raises: a record whose date is not three  *)
(* dash-separated integers has the key (0,0,0) and comes before every      *)
(* record with a valid date, the others ordered by (year, month, day).     *)
C10_BirthDateSortNeverRaises ==
    (result # <<>> /\ key_func = "birth_date") =>
        /\ ~result[1].raised
        /\ Len(result[1].value) = Len(arr)
        /\ \A n \in 1..(Len(arr) - 1) :
              KeyLeq(C10_Key(result[1].value[n]), C10_Key(result[1].value[n + 1]))

\* the key save_database wrote on a line: what stands before the first colon
LineKey(line) == Split1(line, ":")[1]

KeysWritten(block) == [n \in 1..Len(block) |-> LineKey(block[n])]

\* the specialists a record has a conclusion of, in the order of the list
SpecialistsPresent(record) == SelectSeq(specialists, LAMBDA sp : sp \in DOMAIN record)

(* C11: what save_database writes has, record by record, the keys          *)
(* familiya, imya, data_rozhdeniya and gruppa and then those of the        *)
(* specialists the record has, and no others; no key written begins with   *)
(* an underscore; and the list handed to save_database is after the call   *)
(* what it was before.                                                     *)
C11_SaveWritesStoredKeysOnly ==
    saved # <<>> =>
        LET blocks == TextBlocks(file.lines) IN
        /\ Len(blocks) = Len(saved[1])
        /\ \A n \in 1..Len(blocks) :
              /\ KeysWritten(blocks[n]) = required \o SpecialistsPresent(saved[1][n])
              /\ \A m \in 1..Len(blocks[n]) : ~StartsWith(LineKey(blocks[n][m]), "_")
        /\ (Len(report) = 1 => records = saved[1])

\* two records saved, with their derived attributes, a conclusion, and a
\* surname typed in
C11_Witness ==
    /\ saved # <<>>
    /\ Len(report) = 1
    /\ Len(saved[1]) = 2
    /\ DerivedKeys \subseteq DOMAIN saved[1][1]
    /\ saved[1][1][familiya] = Abel
    /\ nevropatolog \in DOMAIN saved[1][1]
    /\ Len(file.lines) = 12

\* a record restricted to the keys save_database writes
Recognized(record) ==
    [k \in (DOMAIN record) \cap (RequiredKeys \cup Range(specialists)) |-> record[k]]

(* C12 as claimed: load_database applied to the file save_database wrote   *)
(* accepts as many records as were saved and rejects none, and returns     *)
(* them in the order saved, each with the keys and values it had, the      *)
(* derived attributes apart.                                               *)
C12_RoundTripAllKeys ==
    (saved # <<>> /\ Len(report) = 2) =>
        /\ report = <<Len(saved[1]), 0>>
        /\ StoredAll(records) = StoredAll(saved[1])

(* C12 as amended: the same, each record returned with the four required   *)
(* keys and the specialist keys it had and their values, and no other key  *)
(* but the derived attributes: a key load_database had kept that           *)
(* save_database does not write does not come back.                        *)
C12_RoundTripWrittenKeys ==
    (saved # <<>> /\ Len(report) = 2) =>
        /\ report = <<Len(saved[1]), 0>>
        /\ Len(records) = Len(saved[1])
        /\ \A i \in 1..Len(records) : Stored(records[i]) = Recognized(saved[1][i])

\* two records saved and loaded again, the first with a surname typed in and
\* a conclusion
C12_Witness ==
    /\ saved # <<>>
    /\ report = <<2, 0>>
    /\ Len(records) = 2
    /\ records[1][familiya] = Abel
    /\ nevropatolog \in DOMAIN records[1]
    /\ records[1][nevropatolog] = zdorov
    /\ records[2][gruppa] = mladshaya

\* what C13 says of a date string that validate_date accepts
DateOk(date_str) ==
    LET parts == Split(date_str, "-") IN
    /\ Len(parts) = 3
    /\ \A n \in 1..3 : IsDecimal(parts[n])
    /\ ToInt(parts[1]) \in 2010..2020
    /\ ToInt(parts[2]) \in 1..12
    /\ ToInt(parts[3]) \in 1..31
    /\ (ToInt(parts[2]) = 2 => ToInt(parts[3]) <= 29)
    /\ (ToInt(parts[2]) \in {4, 6, 9, 11} => ToInt(parts[3]) <= 30)

d2016_02_29 == <<"2", "0", "1", "6", "-", "0", "2", "-", "2", "9">>
d2015_04_31 == <<"2", "0", "1", "5", "-", "0", "4", "-", "3", "1">>
d2021_13_01 == <<"2", "0", "2", "1", "-", "1", "3", "-", "0", "1">>

(* C13: validate_date accepts a string exactly when it splits on '-' into  *)
(* three components of decimal digits with the year in 2010..2020, the     *)
(* month in 1..12, the day in 1..31, at most 29 in month 2 and at most 30  *)
(* in months 4, 6, 9 and 11; 2016-02-29 is accepted, 2015-04-31 and        *)
(* 2021-13-01 are rejected, and 29 February is accepted in every year of   *)
(* the range.                                                              *)
C13_DateAcceptedExactly ==
    verdict # <<>> =>
        /\ verdict[1].date.ok <=> DateOk(in_date)
        /\ in_date = d2016_02_29 => verdict[1].date.ok
        /\ in_date \in {d2015_04_31, d2021_13_01} => ~verdict[1].date.ok
        /\ \A y \in 2010..2020 :
              (/\ Len(Split(in_date, "-")) = 3
               /\ IsDecimal(Split(in_date, "-")[1])
               /\ ToInt(Split(in_date, "-")[1]) = y
               /\ Split(in_date, "-")[2] = <<"0", "2">>
               /\ Split(in_date, "-")[3] = <<"2", "9">>) => verdict[1].date.ok

\* 29 February of a year that is no leap year, accepted
C13_Witness ==
    /\ verdict # <<>>
    /\ in_date = <<"2", "0", "1", "9", "-", "0", "2", "-", "2", "9">>
    /\ verdict[1].date.ok

\* what C14 says of a date and a group that validate_group_by_birth_year accepts
GroupCheckOk(birth_date, group) ==
    /\ IsDecimal(Split(birth_date, "-")[1])
    /\ group \in KnownGroups
    /\ ToInt(Split(birth_date, "-")[1]) \in AdmissibleYears(group)

(* C14: validate_group_by_birth_year accepts exactly when the first        *)
(* dash-separated component of the date is decimal digits, the group is    *)
(* one of the three names, and the year is one of the two of the group,    *)
(* whatever the rest of the date; starshaya passes with 2018 and fails     *)
(* with 2021; and what it returned is what it returns for the same date    *)
(* and group when asked again.                                             *)
C14_GroupCheckedByYearAlone ==
    verdict # <<>> =>
        /\ verdict[1].group.ok <=> GroupCheckOk(in_date, in_group)
        /\ (in_group = starshaya /\ YearOf(in_date) = 2018) => verdict[1].group.ok
        /\ (in_group = starshaya /\ YearOf(in_date) = 2021) => ~verdict[1].group.ok
        /\ verdict[1].group = validate_group_by_birth_year(in_date, in_group)

\* starshaya accepted for a date of 2018 with month 13 and day 32, which
\* validate_date rejects
C14_Witness ==
    /\ verdict # <<>>
    /\ in_group = starshaya
    /\ in_date = <<"2", "0", "1", "8", "-", "1", "3", "-", "3", "2">>
    /\ verdict[1].group.ok
    /\ ~verdict[1].date.ok

(* C15: validate_date and validate_group_by_birth_year never raise: for    *)
(* every string they return a pair, false with a message that is not empty *)
(* on failure and true with the empty message on success.                  *)
C15_FailuresAreValues ==
    verdict # <<>> =>
        \A v \in {verdict[1].date, verdict[1].group} :
            /\ ~v.raised
            /\ v.ok => v.msg = ""
            /\ ~v.ok => v.msg # ""

\* a year with a digit int() does not convert: both validators catch the
\* ValueError and return a failure
C15_Witness ==
    /\ verdict # <<>>
    /\ in_date = <<"2", "0", "1", "^", "-", "0", "2", "-", "2", "9">>
    /\ in_group = starshaya
    /\ verdict[1].date = [raised |-> FALSE, ok |-> FALSE, msg |-> "error: exception"]
    /\ verdict[1].group = [raised |-> FALSE, ok |-> FALSE, msg |-> "error: exception"]

\* how many of the four specialist fields a record has
PresentCount(record) ==
    Cardinality({n \in 1..Len(specialists) : specialists[n] \in DOMAIN record})

\* what C16 says of the derived attributes of a processed record, the
\* specialists listed being those whose value is 'nuzhdaetsya v lechenii' as it
\* stands or, with any_case, in any letter case
DerivedAsClaimed(record, any_case) ==
    LET hc == record[k_healthy_count]
        nt == record[k_needs_treatment]
        ns == record[k_needs_specialists]
    IN /\ hc = Cardinality({n \in 1..Len(specialists) :
                                /\ specialists[n] \in DOMAIN record
                                /\ Lower(record[specialists[n]]) = zdorov})
       /\ hc \in 0..4
       /\ hc + (4 - PresentCount(record)) \in 0..4
       /\ ns = SelectSeq(specialists,
                         LAMBDA sp : /\ sp \in DOMAIN record
                                     /\ nuzhdaetsya_v_lechenii
                                          = IF any_case THEN Lower(record[sp])
                                            ELSE record[sp])
       /\ nt <=> ns # <<>>
       /\ PresentCount(record) = 0 => (hc = 0 /\ nt = FALSE /\ ns = <<>>)

(* C16 as claimed: a record processed by process_records_batch has as      *)
(* _healthy_count the number of its specialist fields that are zdorov in   *)
(* any letter case, a number of 0..4 that with the number of fields absent *)
(* stays in 0..4; as _needs_specialists the specialists whose value is     *)
(* 'nuzhdaetsya v lechenii', in the order of the list; _needs_treatment    *)
(* true exactly when that list is not empty; and 0, false and the empty    *)
(* list when it has no specialist field.                                   *)
C16_NeedsListExact ==
    \A i \in 1..Len(records) :
        DerivedKeys \subseteq DOMAIN records[i]
            => DerivedAsClaimed(records[i], FALSE)

(* C16 as amended: the same, _needs_specialists listing the specialists    *)
(* whose value is 'nuzhdaetsya v lechenii' in any letter case.             *)
C16_NeedsListAnyCase ==
    \A i \in 1..Len(records) :
        DerivedKeys \subseteq DOMAIN records[i]
            => DerivedAsClaimed(records[i], TRUE)

\* a processed record with a healthy conclusion in capitals, two that need
\* treatment, one of them in capitals, and an ortoped field left out
C16_Witness ==
    /\ Len(records) = 1
    /\ DerivedKeys \subseteq DOMAIN records[1]
    /\ ortoped \notin DOMAIN records[1]
    /\ records[1][k_healthy_count] = 1
    /\ records[1][k_needs_treatment] = TRUE
    /\ records[1][k_needs_specialists] = <<nevropatolog, okulist>>
    /\ records[1][nevropatolog] = NuzhdaetsyaUpper
    /\ records[1][otolaringolog] = Zdorov

\* s comes before t as Python compares strings: at the first place where they
\* differ s has the character of the lower code point, or s ends there
StrLess(str, t) ==
    \E k \in 1..(Len(t)) :
        /\ \A j \in 1..(k - 1) : j <= Len(str) /\ str[j] = t[j]
        /\ \/ k = Len(str) + 1
           \/ k <= Len(str) /\ Ord(str[k]) < Ord(t[k])

\* the number of conclusions of zdorov a record has
HealthyCount(record) == count_healthy_specialists(Stored(record))

\* record a may stand right before record b in the health report
HealthOrdered(a, b) ==
    \/ HealthyCount(a) > HealthyCount(b)
    \/ /\ HealthyCount(a) = HealthyCount(b)
       /\ \/ Lower(a[familiya]) = Lower(b[familiya])
          \/ StrLess(Lower(a[familiya]), Lower(b[familiya]))

RejectedOrCancelled ==
    {"error: date", "error: year unknown", "error: year not of the group",
     "error: group name", "error: conclusion", "edit cancelled", "wrong field",
     "nothing to edit"}

\* dates and groups typed at the prompts of edit_record
EditDates == DateInputs \cup {d2018_03_10, d2021_05_05, d2022_13_45, <<>>}
EditGroups == GroupInputs \cup {Srednyaya, starshaya, <<>>}

(* C18: whatever the collection, edit_record changes a birth date only to  *)
(* a date that validate_date accepts and whose year the record's group     *)
(* admits, and a group only to one of the three names that admits the year *)
(* of the record's birth date; and when it rejects the edit or the edit is *)
(* cancelled it returns the collection as it was, every record and field.  *)
C18_EditChecksOtherField ==
    /\ \A choice \in 1..Len(records) :
          /\ \A input \in EditDates :
                LET r == edit_record(records, choice, <<"3">>, input)
                    new == Strip(input)
                IN IF r.msg = "birth date changed"
                   THEN /\ validate_date(new).ok
                        /\ YearOf(new) \in AdmissibleYears(records[choice][gruppa])
                        /\ r.records[choice][data_rozhdeniya] = new
                        /\ r.records[choice][gruppa] = records[choice][gruppa]
                   ELSE r.msg \in RejectedOrCancelled /\ r.records = records
          /\ \A input \in EditGroups :
                LET r == edit_record(records, choice, <<"4">>, input)
                    new == Lower(Strip(input))
                IN IF r.msg = "group changed"
                   THEN /\ new \in KnownGroups
                        /\ YearOf(records[choice][data_rozhdeniya]) \in AdmissibleYears(new)
                        /\ r.records[choice][gruppa] = new
                        /\ r.records[choice][data_rozhdeniya]
                             = records[choice][data_rozhdeniya]
                   ELSE r.msg \in RejectedOrCancelled /\ r.records = records
    /\ \A choice \in 0..Len(records), field_choice \in FieldInputs :
          \A input \in InputsFor(field_choice) \cup EditDates \cup EditGroups :
              LET r == edit_record(records, choice, field_choice, input)
              IN r.msg \in RejectedOrCancelled => r.records = records

\* the loaded record of the group starshaya after its birth date was edited to
\* another date of the years of that group, its surname as loaded
C18_Witness ==
    /\ Len(records) = 2
    /\ records[1][familiya] = Zima
    /\ records[1][gruppa] = starshaya
    /\ records[1][data_rozhdeniya] = d2019_04_30
    /\ edit_record(records, 1, <<"3">>, d2020_02_29).msg = "error: year not of the group"
    /\ edit_record(records, 1, <<"4">>, srednyaya).msg = "error: year not of the group"

\* the dates that validate_date accepts and that validate_group_by_birth_year
\* accepts for the group mladshaya
MladshayaDates ==
    {d \in CheckDates \cup EditDates :
        validate_date(d).ok /\ validate_group_by_birth_year(d, mladshaya).ok}

(* C19: no date passes both validate_date and the check of the year for    *)
(* the group mladshaya; add_record accepts no date together with that      *)
(* group; edit_record changes the birth date of no record of that group,   *)
(* and gives that group to no record whose birth date validate_date        *)
(* accepts; so every record of that group has its date as load_database    *)
(* read it, a date validate_date rejects.                                  *)
C19_MladshayaNotEnterable ==
    /\ MladshayaDates = {}
    /\ \A birth_date \in EditDates, group \in EditGroups :
          date_and_group_accepted(birth_date, group) => Lower(Strip(group)) # mladshaya
    /\ \A choice \in 1..Len(records) :
          /\ records[choice][gruppa] = mladshaya =>
                /\ ~validate_date(records[choice][data_rozhdeniya]).ok
                /\ \A input \in EditDates :
                      edit_record(records, choice, <<"3">>, input).msg
                          # "birth date changed"
          /\ validate_date(records[choice][data_rozhdeniya]).ok =>
                \A input \in EditGroups :
                    Lower(Strip(input)) = mladshaya =>
                        edit_record(records, choice, <<"4">>, input).msg # "group changed"

\* a loaded record of the group mladshaya next to a record that was edited:
\* edit_record refuses it a date of 2022 and a date of 2020
C19_Witness ==
    /\ Len(records) = 2
    /\ records[1][imya] = Ivan
    /\ okulist \in DOMAIN records[1]
    /\ records[2][gruppa] = mladshaya
    /\ edit_record(records, 2, <<"3">>, d2022_05_01).msg = "error: date"
    /\ edit_record(records, 2, <<"3">>, d2020_02_29).msg = "error: year not of the group"
    /\ edit_record(records, 1, <<"4">>, mladshaya).msg = "error: year not of the group"

\* the step just taken is a partition: two frames more than before
SplitStep == Len(frames') = Len(frames) + 2

(* C20: a call of quicksort returns, whatever the order of its input and   *)
(* however many items share a key: at every partition the pivot is in the  *)
(* equal group, so that each of the two calls it leaves has a list         *)
(* strictly shorter than the list partitioned, until the lists have at     *)
(* most one item; and what the call returns is the sorted list.            *)
C20_QuicksortTerminates ==
    /\ [][SplitStep =>
             LET n == NextCall
                 a == frames[n].items
             IN /\ Len(a) > 1
                /\ frames'[n].call /\ Len(frames'[n].items) < Len(a)
                /\ ~frames'[n + 1].call
                /\ \E m \in 1..Len(frames'[n + 1].items) :
                       frames'[n + 1].items[m] = a[(Len(a) \div 2) + 1]
                /\ frames'[n + 2].call /\ Len(frames'[n + 2].items) < Len(a)]_vars
    /\ <>(result # <<>>)
    /\ [](result # <<>> => result[1].value = quicksort(arr, key_func, reverse))

\* a call that has returned, of four items of two keys in descending order
\* sorted ascending
C20_Witness ==
    /\ frames # <<>>
    /\ result # <<>>
    /\ arr = <<<<2, 3>>, <<1, 3>>, <<2, 1>>, <<1, 1>>>>
    /\ key_func = "second"
    /\ ~reverse
    /\ result[1].value = <<<<2, 1>>, <<1, 1>>, <<2, 3>>, <<1, 3>>>>
    /\ Len(frames) = 5

=============================================================================
